---- MODULE Spec2Model ----
(***************************************************************************)
(* Track controller of chillax-server: the request handlers getTracks,     *)
(* getTracksInPlaylist, getTracksLiked, getTracksByAuthor, postTrack,      *)
(* putTrackLike and deleteTrack, over the tracks and playlists             *)
(* collections of the document store.  Every `await` of a handler is a     *)
(* point where other requests may run, so a handler is one action per      *)
(* stretch of code between two awaits.                                     *)
(***************************************************************************)
EXTENDS Integers, Sequences, FiniteSets, TLC

\* ------------------------------------------------------------- bounds
NumProcs == 2        \* requests that may be in flight at the same time
MaxReq == 3          \* requests started in one behaviour
MaxTracks == 2       \* tracks ever created in one behaviour

\* ----------------------------------------------------------- universe
Procs == 1..NumProcs
Users == {"u1", "u2", "u3"}
\* res.locals.user.role of each account
Role == [u \in Users |-> IF u = "u3" THEN "ADMIN" ELSE "USER"]
\* playlist ids; there is no handler that creates or removes a playlist
PlaylistIds == {"p1", "p2"}
PlaylistImg == [p \in PlaylistIds |-> IF p = "p1" THEN "img1" ELSE "img2"]
TrackIds == 1..MaxTracks
\* req.body.name: absent, the empty string, or a non-empty string
NameAbsent == [present |-> FALSE, chars |-> <<>>]
Names == {NameAbsent, [present |-> TRUE, chars |-> <<>>],
          [present |-> TRUE, chars |-> <<"a">>]}

NoTrack == [_id |-> 0, name |-> <<>>, img |-> "", author |-> "", playlist |-> "",
            liked |-> <<>>, createdAt |-> 0]
NoReq == [op |-> "none", user |-> "", id |-> 0, playlist |-> "", name |-> NameAbsent,
          liked |-> FALSE, track |-> NoTrack]
NoResp == [op |-> "none", user |-> "", id |-> 0, playlist |-> "", name |-> NameAbsent,
           status |-> 0, message |-> "", liked |-> FALSE, track |-> NoTrack]
NoObs == [solo |-> FALSE, before |-> FALSE]
NoLast == [run |-> 0, before |-> FALSE, ret |-> FALSE]
\* req.query.page and req.query.limit: absent, or a string of decimal digits
ParamAbsent == [present |-> FALSE, digits |-> <<>>]
NoQuery == [op |-> "none", user |-> "", id |-> "", page |-> ParamAbsent,
            limit |-> ParamAbsent]

VARIABLES
    tracks,      \* the tracks collection: a set of documents with distinct _id
    playlists,   \* the playlists collection: id -> [img, tracks]
    nextId,      \* the next fresh track _id
    clock,       \* the wall clock that stamps createdAt
    idRepr,      \* how res.locals.user._id is represented: "string" | "ObjectId"
    pc,          \* per request slot: where its handler stands
    req,         \* per request slot: the handler's locals
    resp,        \* the response being sent, with the request it answers
    started,     \* requests started so far
    obs,         \* observer, per request slot: the like toggle in flight
    last,        \* observer, per user and track: the last completed like toggle
    query,       \* the last listing request
    result,      \* the page of tracks the last listing request returned
    prevResult   \* observer: the page before it, when the client is paging

mvars == <<tracks, playlists, nextId, clock, idRepr, pc, req, resp, started, obs, last>>
lvars == <<query, result, prevResult>>
vars == <<mvars, lvars>>

\* ------------------------------------------------------ store helpers
Range(s) == {s[i] : i \in 1..Len(s)}

RECURSIVE SeqFilter(_, _)
SeqFilter(s, x) ==
    IF s = <<>> THEN <<>>
    ELSE IF Head(s) = x THEN SeqFilter(Tail(s), x)
    ELSE <<Head(s)>> \o SeqFilter(Tail(s), x)

Count(s, x) == Cardinality({i \in 1..Len(s) : s[i] = x})

\* Track.findById(id): the document, or null
FindById(id) ==
    IF \E d \in tracks : d._id = id
    THEN CHOOSE d \in tracks : d._id = id
    ELSE NoTrack

\* MongooseArray.includes
Includes(arr, x) == \E i \in 1..Len(arr) : arr[i] = x

\* variant: a $pull that matches nothing
PullNothing(arr, x) == arr

\* $pull: removes every element equal to x
Pull(arr, x) == SeqFilter(arr, x)

\* variant: $push in place of $addToSet
Push(arr, x) == Append(arr, x)

\* $addToSet: appends x unless it is present
AddToSet(arr, x) == IF Includes(arr, x) THEN arr ELSE Append(arr, x)

\* the liked array after an update document { $pull | $addToSet: { liked: x } }
ApplyUpdate(arr, update) ==
    IF update.op = "$pull" THEN Pull(arr, update.liked) ELSE AddToSet(arr, update.liked)

\* track.updateOne(update): applies to the document with that _id, if any
UpdateOne(id, update) ==
    {IF d._id = id THEN [d EXCEPT !.liked = ApplyUpdate(d.liked, update)] ELSE d :
        d \in tracks}

\* variant: the empty string passes validation
isEmptyNever(chars) == FALSE

\* validator's isEmpty
isEmpty(chars) == Len(chars) = 0

\* variant: the author test lets everyone through
NeverNotEqual(author, uid) == FALSE

\* JavaScript's a != b for track.author (an ObjectId) and user._id.  When
\* user._id is an ObjectId too, != compares the identity of two distinct
\* objects and is true whatever their value; when it is a string, the
\* ObjectId is converted to its hex string and the two are compared by value.
\* Which of the two it is depends on how res.locals.user was filled in.
LooseNotEqual(author, uid) ==
    IF idRepr = "ObjectId" THEN TRUE ELSE author # uid

\* whether user u is a liker of track id in collection coll
Member(coll, id, u) == \E d \in coll : d._id = id /\ u \in Range(d.liked)

Exists(coll, id) == \E d \in coll : d._id = id

Init ==
    /\ tracks = {}
    \* the store holds playlist p1 and no track; p2 names no playlist
    /\ playlists = [p \in {"p1"} |-> [img |-> PlaylistImg[p], tracks |-> <<>>]]
    /\ nextId = 1
    /\ clock = 1
    /\ idRepr \in {"string", "ObjectId"}
    /\ pc = [p \in Procs |-> "idle"]
    /\ req = [p \in Procs |-> NoReq]
    /\ resp = NoResp
    /\ started = 0
    /\ obs = [p \in Procs |-> NoObs]
    /\ last = [k \in Users \X TrackIds |-> NoLast]
    /\ query = NoQuery
    /\ result = <<>>
    /\ prevResult = <<>>

\* a new request takes the first free slot (the slots are interchangeable)
Start(p) ==
    /\ pc[p] = "idle"
    /\ \A q \in Procs : q < p => pc[q] # "idle"
    /\ started < MaxReq
    /\ started' = started + 1

\* res.json(...) or the error handler's response to a thrown ApplicationError
Reply(p, r, status, message, liked, track) ==
    /\ resp' = [op |-> r.op, user |-> r.user, id |-> r.id, playlist |-> r.playlist,
                name |-> r.name, status |-> status, message |-> message, liked |-> liked,
                track |-> track]
    /\ pc' = [pc EXCEPT ![p] = "idle"]
    /\ req' = [req EXCEPT ![p] = NoReq]

\* the handler suspends at an await
Await(p, label, locals) ==
    /\ pc' = [pc EXCEPT ![p] = label]
    /\ req' = [req EXCEPT ![p] = locals]
    /\ resp' = NoResp

\* ------------------------------------------------------- putTrackLike
\* the other like toggles of user u on track id that are in flight
Overlapping(p, u, id) ==
    {q \in Procs \ {p} : req[q].op = "like" /\ req[q].user = u /\ req[q].id = id}

PutTrackLikeFind(p, u, id) ==
    /\ Start(p)
    /\ LET track == FindById(id) IN
       IF track = NoTrack
       THEN /\ Reply(p, [NoReq EXCEPT !.op = "like", !.user = u, !.id = id],
                      404, "Track not found", FALSE, NoTrack)
            /\ obs' = obs
       ELSE /\ Await(p, "like_update", [NoReq EXCEPT !.op = "like", !.user = u,
                          !.id = id, !.liked = Includes(track.liked, u)])
            /\ obs' = [q \in Procs |->
                         IF q = p
                         THEN [solo |-> Overlapping(p, u, id) = {},
                               before |-> Member(tracks, id, u)]
                         ELSE IF q \in Overlapping(p, u, id)
                         THEN [obs[q] EXCEPT !.solo = FALSE]
                         ELSE obs[q]]
    /\ UNCHANGED <<tracks, playlists, nextId, clock, idRepr, last, lvars>>

LikeUpdate(id, u, liked) ==
    IF liked
    THEN UpdateOne(id, [op |-> "$pull", liked |-> u])
    ELSE UpdateOne(id, [op |-> "$addToSet", liked |-> u])

PutTrackLikeUpdate(p) ==
    /\ pc[p] = "like_update"
    /\ tracks' = LikeUpdate(req[p].id, req[p].user, req[p].liked)
    /\ Reply(p, req[p], 200, "", ~req[p].liked, NoTrack)
    /\ obs' = [obs EXCEPT ![p] = NoObs]
    /\ last' = [last EXCEPT ![<<req[p].user, req[p].id>>] =
                  IF obs[p].solo /\ Exists(tracks, req[p].id)
                  THEN [run |-> IF last[<<req[p].user, req[p].id>>].run = 0 THEN 1 ELSE 2,
                        before |-> obs[p].before, ret |-> ~req[p].liked]
                  ELSE NoLast]
    /\ UNCHANGED <<playlists, nextId, clock, idRepr, started, lvars>>

\* ---------------------------------------------------------- postTrack
PostTrackFind(p, u, id, name) ==
    /\ Start(p)
    /\ IF ~name.present \/ isEmpty(name.chars)
       THEN Reply(p, [NoReq EXCEPT !.op = "post", !.user = u, !.playlist = id,
                                   !.name = name],
                  404, "Name is not valid", FALSE, NoTrack)
       ELSE IF id \notin DOMAIN playlists
       THEN Reply(p, [NoReq EXCEPT !.op = "post", !.user = u, !.playlist = id,
                                   !.name = name],
                  404, "Playlist not found", FALSE, NoTrack)
       ELSE Await(p, "post_create", [NoReq EXCEPT !.op = "post", !.user = u,
                     !.playlist = id, !.name = name,
                     !.track = [NoTrack EXCEPT !.img = playlists[id].img]])
    /\ UNCHANGED <<tracks, playlists, nextId, clock, idRepr, obs, last, lvars>>

\* the document Track.create stores
NewTrack(id, name, img, author, playlist, now) ==
    [_id |-> id, name |-> name, img |-> img, author |-> author,
     playlist |-> playlist, liked |-> <<>>, createdAt |-> now]

PostTrackCreate(p) ==
    /\ pc[p] = "post_create"
    /\ nextId <= MaxTracks
    /\ \E now \in {clock, clock + 1} :
         \* only the order of the timestamps matters: the k-th track is stamped <= k
         /\ now <= nextId
         /\ clock' = now
         /\ LET track == NewTrack(nextId, req[p].name.chars, req[p].track.img,
                                  req[p].user, req[p].playlist, now) IN
            /\ tracks' = tracks \cup {track}
            /\ pc' = [pc EXCEPT ![p] = "post_push"]
            /\ req' = [req EXCEPT ![p].track = track]
    /\ nextId' = nextId + 1
    /\ resp' = NoResp
    /\ UNCHANGED <<playlists, idRepr, started, obs, last, lvars>>

\* playlist.update({ $push: { tracks: track._id } })
PushTrack(coll, id, trackId) ==
    [p \in DOMAIN coll |->
       IF p = id THEN [coll[p] EXCEPT !.tracks = Append(@, trackId)] ELSE coll[p]]

PostTrackPush(p) ==
    /\ pc[p] = "post_push"
    /\ playlists' = PushTrack(playlists, req[p].playlist, req[p].track._id)
    /\ Reply(p, req[p], 200, "", FALSE, req[p].track)
    /\ UNCHANGED <<tracks, nextId, clock, idRepr, started, obs, last, lvars>>

\* -------------------------------------------------------- deleteTrack
DeleteTrackFind(p, u, id) ==
    /\ Start(p)
    /\ LET track == FindById(id) IN
       IF track = NoTrack
       THEN Reply(p, [NoReq EXCEPT !.op = "delete", !.user = u, !.id = id],
                  404, "Playlist not found", FALSE, NoTrack)
       ELSE IF LooseNotEqual(track.author, u) /\ Role[u] # "ADMIN"
       THEN Reply(p, [NoReq EXCEPT !.op = "delete", !.user = u, !.id = id],
                  403, "Dont have permission", FALSE, NoTrack)
       ELSE Await(p, "delete_remove", [NoReq EXCEPT !.op = "delete", !.user = u,
                     !.id = id, !.track = track])
    /\ UNCHANGED <<tracks, playlists, nextId, clock, idRepr, obs, last, lvars>>

\* track.remove()
Remove(coll, id) == {d \in coll : d._id # id}

DeleteTrackRemove(p) ==
    /\ pc[p] = "delete_remove"
    /\ tracks' = Remove(tracks, req[p].track._id)
    /\ Reply(p, req[p], 200, "", FALSE, req[p].track)
    /\ UNCHANGED <<playlists, nextId, clock, idRepr, started, obs, last, lvars>>

\* ----------------------------------------------------------- listings
PageParams == {ParamAbsent, [present |-> TRUE, digits |-> <<2>>]}
LimitParams == {ParamAbsent, [present |-> TRUE, digits |-> <<1>>],
                [present |-> TRUE, digits |-> <<2>>]}

\* JavaScript's conversion of a digit string to a number
RECURSIVE ToNumber(_)
ToNumber(digits) ==
    IF digits = <<>> THEN 0
    ELSE 10 * ToNumber(SubSeq(digits, 1, Len(digits) - 1)) + digits[Len(digits)]

DefaultPage == 1
DefaultLimit == 10

\* const { page = 1, limit = 10 } = req.query
PageOf(param) == IF param.present THEN ToNumber(param.digits) ELSE DefaultPage
LimitOf(param) == IF param.present THEN ToNumber(param.digits) ELSE DefaultLimit

\* variant: skip = page * limit
SkipOfPage(page, limit) == page * limit

\* const skip = (page - 1) * limit
SkipOf(page, limit) == (page - 1) * limit

\* $match: { playlist: id }
MatchPlaylist(coll, id) == {d \in coll : d.playlist = id}

\* $match: { author: id }
MatchAuthor(coll, id) == {d \in coll : d.author = id}

\* variant: a $match that selects every track
MatchEvery(coll, uid) == coll

\* $match: { liked: { $in: [uid, '$liked'] } }: the query operator $in, which
\* holds when an element of the array field equals one of the listed values
MatchLiked(coll, uid) ==
    {d \in coll : \E i \in 1..Len(d.liked) : d.liked[i] \in {uid, "$liked"}}

\* $lookup of the author among the users, then $unwind: a track without an
\* author document is dropped
LookupAuthor(coll) == {d \in coll : d.author \in Users}

\* likedLength of a listing that adds none
Absent == -1

\* $addFields: { liked: { $in: [uid, '$liked'] }, likedLength: { $size: '$liked' } }
AddLikedFields(d, uid) ==
    [_id |-> d._id, liked |-> Includes(d.liked, uid), likedLength |-> Len(d.liked),
     createdAt |-> d.createdAt]

\* $addFields: { liked: true }
AddLikedTrue(d) ==
    [_id |-> d._id, liked |-> TRUE, likedLength |-> Absent, createdAt |-> d.createdAt]

\* variant: $sort without the liked key
RankedBeforeNoLiked(a, b) ==
    \/ a.likedLength > b.likedLength
    \/ a.likedLength = b.likedLength /\ a.createdAt > b.createdAt

\* $sort: { likedLength: -1, liked: -1, createdAt: -1 }: a sorts before b
RankedBefore(a, b) ==
    \/ a.likedLength > b.likedLength
    \/ a.likedLength = b.likedLength /\ a.liked /\ ~b.liked
    \/ a.likedLength = b.likedLength /\ a.liked = b.liked /\ a.createdAt > b.createdAt

\* $sort: { createdAt: -1 }
NewestBefore(a, b) == a.createdAt > b.createdAt

\* a sorts before b under the $sort document named by keys
Before(keys, a, b) ==
    IF keys = "ranked" THEN RankedBefore(a, b) ELSE NewestBefore(a, b)

RECURSIVE Perms(_)
Perms(S) ==
    IF S = {} THEN {<<>>}
    ELSE UNION {{<<x>> \o s : s \in Perms(S \ {x})} : x \in S}

\* $sort: the orders the store may produce; documents that tie on every key
\* come in any order
Sorted(docs, keys) ==
    {s \in Perms(docs) : \A i, j \in 1..Len(s) : i < j => ~Before(keys, s[j], s[i])}

\* { $skip: n }
Skip(s, n) == SubSeq(s, n + 1, Len(s))

\* { $limit: n }
Limit(s, n) == SubSeq(s, 1, IF n < Len(s) THEN n ELSE Len(s))

Page(s, page, limit) == Limit(Skip(s, SkipOf(PageOf(page), LimitOf(limit))), LimitOf(limit))

\* the documents of each listing's pipeline before $sort
TracksDocs(u) == {AddLikedFields(d, u) : d \in LookupAuthor(tracks)}
PlaylistDocs(u, id) == {AddLikedFields(d, u) : d \in LookupAuthor(MatchPlaylist(tracks, id))}
LikedDocs(u) == {AddLikedTrue(d) : d \in LookupAuthor(MatchLiked(tracks, u))}
AuthorDocs(u, id) == {AddLikedFields(d, u) : d \in LookupAuthor(MatchAuthor(tracks, id))}

\* the client is paging when it asks the same listing for the next page
IsNextPage(q) ==
    /\ query.op = q.op /\ query.user = q.user /\ query.id = q.id
    /\ query.limit = q.limit
    /\ PageOf(q.page) = PageOf(query.page) + 1

\* a listing reads the store and changes nothing, so its result does not depend
\* on the listings before it: a behaviour is one listing and then its next pages
Asked(q) == query = NoQuery \/ IsNextPage(q)

Respond(q, sorted, page, limit) ==
    /\ query' = q
    /\ result' = Page(sorted, page, limit)
    /\ prevResult' = IF IsNextPage(q) THEN result ELSE <<>>
    /\ UNCHANGED mvars

NewQuery(op, u, id, page, limit) ==
    [op |-> op, user |-> u, id |-> id, page |-> page, limit |-> limit]

getTracks(u, page, limit) ==
    /\ Asked(NewQuery("getTracks", u, "", page, limit))
    /\ \E s \in Sorted(TracksDocs(u), "ranked") :
         Respond(NewQuery("getTracks", u, "", page, limit), s, page, limit)

getTracksInPlaylist(u, id, page, limit) ==
    /\ Asked(NewQuery("getTracksInPlaylist", u, id, page, limit))
    /\ \E s \in Sorted(PlaylistDocs(u, id), "ranked") :
         Respond(NewQuery("getTracksInPlaylist", u, id, page, limit), s, page, limit)

getTracksLiked(u, page, limit) ==
    /\ Asked(NewQuery("getTracksLiked", u, "", page, limit))
    /\ \E s \in Sorted(LikedDocs(u), "newest") :
         Respond(NewQuery("getTracksLiked", u, "", page, limit), s, page, limit)

getTracksByAuthor(u, id, page, limit) ==
    /\ Asked(NewQuery("getTracksByAuthor", u, id, page, limit))
    /\ \E s \in Sorted(AuthorDocs(u, id), "ranked") :
         Respond(NewQuery("getTracksByAuthor", u, id, page, limit), s, page, limit)

Next ==
    \/ \E p \in Procs, u \in Users, id \in TrackIds : PutTrackLikeFind(p, u, id)
    \/ \E p \in Procs : PutTrackLikeUpdate(p)
    \/ \E p \in Procs, u \in Users, id \in PlaylistIds, name \in Names :
         PostTrackFind(p, u, id, name)
    \/ \E p \in Procs : PostTrackCreate(p)
    \/ \E p \in Procs : PostTrackPush(p)
    \/ \E p \in Procs, u \in Users, id \in TrackIds : DeleteTrackFind(p, u, id)
    \/ \E p \in Procs : DeleteTrackRemove(p)

Spec == Init /\ [][Next]_vars

\* ------------------------------------------- listings over a given store
Listers == {"u1", "u2"}
LikedArrays == {<<>>, <<"u1">>, <<"u2">>, <<"u1", "u2">>}

\* the stores with tracks 1..n as n completed postTrack requests and any
\* number of like toggles leave them: the k-th track is stamped no earlier
\* than the one before it
StoresOf(n) ==
    {f \in [1..n -> [author : Listers, playlist : PlaylistIds, liked : LikedArrays,
                     createdAt : 1..MaxTracks]] :
        \* no listing reads both the author and the playlist of a track
        /\ \A k \in 1..n : f[k].author = "u1" <=> f[k].playlist = "p1"
        /\ n > 0 => f[1].createdAt = 1
        /\ \A k \in 2..n : f[k].createdAt \in {f[k - 1].createdAt, f[k - 1].createdAt + 1}}

TracksOf(n, f) ==
    {[NewTrack(k, <<"a">>, PlaylistImg[f[k].playlist], f[k].author, f[k].playlist,
               f[k].createdAt) EXCEPT !.liked = f[k].liked] : k \in 1..n}

RECURSIVE IdsIn(_, _, _)
IdsIn(n, f, p) ==
    IF n = 0 THEN <<>>
    ELSE IF f[n].playlist = p THEN Append(IdsIn(n - 1, f, p), n)
    ELSE IdsIn(n - 1, f, p)

InitList ==
    /\ \E n \in 0..MaxTracks : \E f \in StoresOf(n) :
         /\ tracks = TracksOf(n, f)
         /\ playlists = [p \in PlaylistIds |->
                           [img |-> PlaylistImg[p], tracks |-> IdsIn(n, f, p)]]
         /\ nextId = n + 1
         /\ clock = IF n = 0 THEN 1 ELSE f[n].createdAt
    /\ idRepr = "ObjectId"
    /\ pc = [p \in Procs |-> "idle"]
    /\ req = [p \in Procs |-> NoReq]
    /\ resp = NoResp
    /\ started = 0
    /\ obs = [p \in Procs |-> NoObs]
    /\ last = [k \in Users \X TrackIds |-> NoLast]
    /\ query = NoQuery
    /\ result = <<>>
    /\ prevResult = <<>>

NextList ==
    \/ \E u \in Listers, page \in PageParams, limit \in LimitParams :
         getTracks(u, page, limit)
    \/ \E u \in Listers, id \in PlaylistIds, page \in PageParams, limit \in LimitParams :
         getTracksInPlaylist(u, id, page, limit)
    \/ \E u \in Listers, page \in PageParams, limit \in LimitParams :
         getTracksLiked(u, page, limit)
    \/ \E u \in Listers, id \in Listers, page \in PageParams, limit \in LimitParams :
         getTracksByAuthor(u, id, page, limit)

SpecList == InitList /\ [][NextList]_vars

\* ------------------------------------------------------------- claims
\* the step in which request slot p applies its like update and answers
LikeUpdates(p) == pc[p] = "like_update" /\ pc'[p] = "idle"

\* C1: putTrackLike flips the requester's membership in the liker set
\* atomically: under any interleaving of putTrackLike requests on an existing
\* track, every request's update changes the requester's membership, and the
\* boolean it returns is the membership right after that update.
C1_AtomicFlip ==
    [][\A p \in Procs :
         (LikeUpdates(p) /\ Exists(tracks, req[p].id)) =>
            /\ Member(tracks', req[p].id, req[p].user)
                 # Member(tracks, req[p].id, req[p].user)
            /\ resp'.liked = Member(tracks', req[p].id, req[p].user)]_vars

\* C2: in every reachable state a track's liked array holds any user's id at
\* most once.
C2_LikedOnce == \A d \in tracks : \A u \in Users : Count(d.liked, u) <= 1

\* a like toggle has added its user while another toggle of the same user on
\* the same track, which also read "not liked", is still to apply $addToSet
C2_Witness ==
    /\ resp.op = "like" /\ resp.status = 200 /\ resp.liked
    /\ Member(tracks, resp.id, resp.user)
    /\ \E p \in Procs : /\ pc[p] = "like_update" /\ ~req[p].liked
                        /\ req[p].user = resp.user /\ req[p].id = resp.id

\* C3: when a user's like toggle on a track completes right after another
\* completed toggle of that user on that track (neither overlapping a third),
\* the user's membership is what it was before the first, the first returned
\* the negation of that membership and the second returns it; a like update
\* changes no other user's membership and no other track.
C3_RoundTrip ==
    [][\A p \in Procs :
         LikeUpdates(p) =>
            LET u == req[p].user
                id == req[p].id
                first == last[<<u, id>>]
            IN  /\ (obs[p].solo /\ first.run > 0 /\ Exists(tracks', id)) =>
                      /\ first.ret = ~first.before
                      /\ resp'.liked = first.before
                      /\ Member(tracks', id, u) = first.before
                /\ \A v \in Users, t \in TrackIds :
                      (v # u \/ t # id) => Member(tracks', t, v) = Member(tracks, t, v)]_vars

\* the second of two consecutive toggles of a user on a track has just answered
C3_Witness ==
    /\ resp.op = "like" /\ resp.status = 200
    /\ last[<<resp.user, resp.id>>].run = 2
    /\ Exists(tracks, resp.id)

\* C4: deleteTrack on an existing track by its author (of any role) or by an
\* administrator succeeds: it is not refused, the track is removed and the
\* response carries the track as it was read.
C4_AuthorOrAdminDeletes ==
    [][/\ (resp'.op = "delete" /\ resp'.status = 403) =>
            /\ FindById(resp'.id).author # resp'.user
            /\ Role[resp'.user] # "ADMIN"
       /\ (resp'.op = "delete" /\ resp'.status = 404) => ~Exists(tracks, resp'.id)
       /\ \A p \in Procs :
            (pc[p] = "delete_remove" /\ pc'[p] = "idle") =>
               /\ ~Exists(tracks', req[p].id)
               /\ resp'.status = 200
               /\ resp'.track = req[p].track
               /\ resp'.track._id = req[p].id]_vars

\* C5: deleteTrack on an existing track by a user who is neither its author
\* nor an administrator is answered 403, deleteTrack on a track that does not
\* exist is answered 404, and neither changes any stored document; only the
\* author's or an administrator's request goes on to remove the track.
C5_DeleteRefused ==
    [][/\ (resp'.op = "delete" /\ resp'.status # 200) =>
            /\ tracks' = tracks /\ playlists' = playlists
            /\ resp'.status = IF Exists(tracks, resp'.id) THEN 403 ELSE 404
       /\ \A p \in Procs :
            (pc[p] = "idle" /\ pc'[p] = "delete_remove") =>
               /\ Exists(tracks, req'[p].id)
               /\ \/ FindById(req'[p].id).author = req'[p].user
                  \/ Role[req'[p].user] = "ADMIN"]_vars

\* a stranger's deleteTrack on a track that has a liker has been refused
C5_Witness ==
    /\ resp.op = "delete" /\ resp.status = 403
    /\ Exists(tracks, resp.id)
    /\ FindById(resp.id).author # resp.user /\ Role[resp.user] # "ADMIN"
    /\ FindById(resp.id).liked # <<>>

\* C6: a postTrack that fails changes nothing in the store: with a missing or
\* empty name it fails with the validation error, with a valid name and a
\* playlist that does not exist with the not-found error; a request goes on
\* to create a track only with a non-empty name and an existing playlist.
C6_PostRefused ==
    [][/\ (resp'.op = "post" /\ resp'.status # 200) =>
            /\ tracks' = tracks /\ playlists' = playlists /\ nextId' = nextId
            /\ resp'.status = 404
            /\ resp'.message =
                 IF ~resp'.name.present \/ resp'.name.chars = <<>>
                 THEN "Name is not valid" ELSE "Playlist not found"
            /\ resp'.message = "Playlist not found" =>
                 resp'.playlist \notin DOMAIN playlists
       /\ \A p \in Procs :
            (pc[p] = "idle" /\ pc'[p] = "post_create") =>
               /\ req'[p].name.present /\ req'[p].name.chars # <<>>
               /\ req'[p].playlist \in DOMAIN playlists]_vars

\* a postTrack naming no playlist has failed while the store holds a track
C6_Witness ==
    /\ resp.op = "post" /\ resp.status = 404 /\ resp.message = "Playlist not found"
    /\ resp.name.present /\ resp.name.chars # <<>>
    /\ tracks # {}

\* C10: a successful postTrack is one atomic mutation, so in every reachable
\* state every existing track's id appears exactly once in the track sequence
\* of the playlist the track belongs to.
C10_TrackInPlaylistOnce ==
    \A d \in tracks :
        /\ d.playlist \in DOMAIN playlists
        /\ Count(playlists[d.playlist].tracks, d._id) = 1

\* ---------------------------------------------------- listing claims
Ranked == query.op \in {"getTracks", "getTracksInPlaylist", "getTracksByAuthor"}

\* the stored track a listed document stands for
Stored(doc) == FindById(doc._id)
Likers(d) == Cardinality(Range(d.liked))
LikedBy(d, u) == u \in Range(d.liked)

\* the tracks the last listing selects
Selected ==
    CASE query.op = "getTracks" -> tracks
      [] query.op = "getTracksInPlaylist" -> {d \in tracks : d.playlist = query.id}
      [] query.op = "getTracksByAuthor" -> {d \in tracks : d.author = query.id}
      [] query.op = "getTracksLiked" -> {d \in tracks : LikedBy(d, query.user)}
      [] OTHER -> {}

\* C7: in the global, playlist and author listings, of two listed tracks the
\* one with more likers comes first; with equally many, the one the requester
\* likes comes first; tied on both, the later created comes first.  The liked
\* flag of a listed track is true iff the requester is one of its likers.
C7_RankedOrder ==
    Ranked =>
      \A i, j \in 1..Len(result) :
         LET A == Stored(result[i])
             B == Stored(result[j])
             u == query.user
         IN  /\ A \in Selected
             /\ result[i].liked = LikedBy(A, u)
             /\ Likers(A) > Likers(B) => i < j
             /\ (Likers(A) = Likers(B) /\ LikedBy(A, u) /\ ~LikedBy(B, u)) => i < j
             /\ (Likers(A) = Likers(B) /\ LikedBy(A, u) = LikedBy(B, u)
                   /\ A.createdAt > B.createdAt) => i < j

\* a track the requester likes is listed before a newer one with as many
\* likers that the requester does not like
C7_Witness ==
    /\ Ranked
    /\ \E i, j \in 1..Len(result) :
         /\ i < j
         /\ Likers(Stored(result[i])) = Likers(Stored(result[j]))
         /\ result[i].liked /\ ~result[j].liked
         /\ Stored(result[i]).createdAt < Stored(result[j]).createdAt

\* the numbers the last listing's parameters stand for
AskedPage == IF query.page.present THEN ToNumber(query.page.digits) ELSE 1
AskedLimit == IF query.limit.present THEN ToNumber(query.limit.digits) ELSE 10
AskedSort == IF Ranked THEN "ranked" ELSE "newest"
AskedDocs ==
    {IF Ranked THEN AddLikedFields(d, query.user) ELSE AddLikedTrue(d) : d \in Selected}

\* seq holds the entries of s from offset `from` on, at most `count` of them
IsSlice(seq, s, from, count) ==
    /\ Len(seq) <= count
    /\ Len(seq) = IF Len(s) - from < 0 THEN 0
                  ELSE IF Len(s) - from < count THEN Len(s) - from ELSE count
    /\ \A k \in 1..Len(seq) : seq[k] = s[from + k]

\* no two selected tracks tie on every sort key of the last listing
NoTies ==
    \A a, b \in AskedDocs :
        a # b => (Before(AskedSort, a, b) \/ Before(AskedSort, b, a))

Paging == prevResult # <<>>

ListedIds(seq) == {seq[k]._id : k \in 1..Len(seq)}

\* C8 as stated: every listing's result is the slice at offset
\* (page - 1) * limit, of length limit, of the selected tracks in sorted order,
\* and consecutive pages are disjoint and follow one another in that order.
C8_PagesPartition ==
    query.op # "none" =>
      /\ \E s \in Sorted(AskedDocs, AskedSort) :
            IsSlice(result, s, (AskedPage - 1) * AskedLimit, AskedLimit)
      /\ Paging =>
            /\ ListedIds(prevResult) \cap ListedIds(result) = {}
            /\ \E s \in Sorted(AskedDocs, AskedSort) :
                  IsSlice(prevResult \o result, s, (AskedPage - 2) * AskedLimit,
                          2 * AskedLimit)

\* C8 amended: every listing's result is the slice at offset (page - 1) * limit,
\* of length limit, of the selected tracks in an order sorted by the listing's
\* keys, page and limit being 1 and 10 when absent; when no two selected tracks
\* tie on every sort key, consecutive pages are disjoint and follow one another
\* in that order.
C8_Slice ==
    query.op # "none" =>
      /\ \E s \in Sorted(AskedDocs, AskedSort) :
            IsSlice(result, s, (AskedPage - 1) * AskedLimit, AskedLimit)
      /\ (Paging /\ NoTies) =>
            /\ ListedIds(prevResult) \cap ListedIds(result) = {}
            /\ \E s \in Sorted(AskedDocs, AskedSort) :
                  IsSlice(prevResult \o result, s, (AskedPage - 2) * AskedLimit,
                          2 * AskedLimit)

\* the second page of a listing with one track a page has been returned
C8_Witness ==
    /\ Paging /\ NoTies
    /\ query.page.present /\ query.limit.present
    /\ Len(prevResult) = 1 /\ Len(result) = 1

\* C9: the liked listing returns, page by page, exactly the tracks whose
\* liked array holds the requester, each with liked = true, ordered by
\* creation time alone, newest first.
C9_LikedListing ==
    query.op = "getTracksLiked" =>
      /\ \A i \in 1..Len(result) :
            /\ result[i].liked = TRUE
            /\ LikedBy(Stored(result[i]), query.user)
      /\ \A i, j \in 1..Len(result) :
            /\ i < j => Stored(result[i]).createdAt >= Stored(result[j]).createdAt
            /\ i # j => result[i]._id # result[j]._id
      /\ Len(result) =
            LET n == Cardinality(Selected) - (AskedPage - 1) * AskedLimit
            IN  IF n < 0 THEN 0 ELSE IF n < AskedLimit THEN n ELSE AskedLimit

\* the liked listing puts a newer track before an older one that has more likers
C9_Witness ==
    /\ query.op = "getTracksLiked"
    /\ \E i, j \in 1..Len(result) :
         /\ i < j
         /\ Likers(Stored(result[i])) < Likers(Stored(result[j]))
         /\ Stored(result[i]).createdAt > Stored(result[j]).createdAt

====
